---- MODULE Spec2Model ----
(***************************************************************************)
(* Model of docling/datamodel/document.py:                                 *)
(*   - InputDocument.__init__            (opening and validating a file)   *)
(*   - ConvertedDocument.to_ds_document  (document assembly and table-grid *)
(*     reconstruction)                                                     *)
(* Python lists are modelled as sequences; list positions and the          *)
(* (row, col) pairs kept in span lists are the 0-based Python numbers, a   *)
(* list element k (0-based) is the sequence element k + 1.  An Optional    *)
(* value is a sequence of length at most one (<<>> is None).               *)
(***************************************************************************)
EXTENDS Integers, Sequences, FiniteSets, TLC

\* ------------------------------------------------------------- bounds
MaxElems == 3
MaxRows == 2
MaxCols == 2
MaxSpans == 2
MaxSize == 2
MaxPageCount == 2

\* ------------------------------------------------------------- helpers
Min(a, b) == IF a < b THEN a ELSE b

Max(a, b) == IF a > b THEN a ELSE b

SeqsUpTo(S, n) == UNION {[1..k -> S] : k \in 0..n}

\* list(range(a, b)) of Python, as a sequence
PyRangeSeq(a, b) == [k \in 1..Max(0, b - a) |-> a + k - 1]

\* lst[i] of Python for a list of length n: a negative index counts from the end
PyIndex(i, n) == IF i < 0 THEN i + n ELSE i

\* lst[i] raises IndexError
PyIndexError(i, n) == i < 0 - n \/ i >= n

None == <<>>

\* the index taken after the append
RefStrAfterAppend(channel, index) == "#/" \o channel \o "/" \o ToString(index + 1)

\* str(int) for the f-string of a reference path
RefStr(channel, index) == "#/" \o channel \o "/" \o ToString(index)

\* ------------------------------------------------------------- label mapping
\* an unknown label typed as a paragraph
layout_label_default(label) ==
    IF label = "Table" THEN <<"table">> ELSE <<"paragraph">>

layout_label_to_ds_type(label) ==
    CASE label = "Title" -> <<"title">>
      [] label = "Document Index" -> <<"table-of-path_or_stream">>
      [] label = "Section-header" -> <<"subtitle-level-1">>
      [] label = "Checkbox-Selected" -> <<"checkbox-selected">>
      [] label = "Checkbox-Unselected" -> <<"checkbox-unselected">>
      [] label = "Caption" -> <<"caption">>
      [] label = "Page-header" -> <<"page-header">>
      [] label = "Page-footer" -> <<"page-footer">>
      [] label = "Footnote" -> <<"footnote">>
      [] label = "Table" -> <<"table">>
      [] label = "Formula" -> <<"equation">>
      [] label = "List-item" -> <<"paragraph">>
      [] label = "Code" -> <<"paragraph">>
      [] label = "Picture" -> <<"figure">>
      [] label = "Text" -> <<"paragraph">>
      [] OTHER -> None

\* ------------------------------------------------------------- coordinates
\* bbox.to_bottom_left_origin(page_height).as_tuple(): the tuple is
\* (left, top, right, bottom); top' = h - bottom, bottom' = h - top.
to_bottom_left_origin(bbox, page_height) ==
    <<bbox[1], page_height - bbox[4], bbox[3], page_height - bbox[2]>>

\* ------------------------------------------------------------- state
VARIABLES
    \* ConvertedDocument fields
    pages,        \* self.pages: list of Page (page_no, size.height, size.width)
    elements,     \* self.assembled.elements
    status,       \* self.status
    errors,       \* self.errors
    output,       \* self.output (Optional)
    \* locals of to_ds_document
    main_text,
    tables,
    figures,
    table_data,   \* grid of the table element being converted
    target_bbox,  \* normalized box of the current element (Optional)
    idx,          \* 0-based position of the for loop over elements
    cidx,         \* 0-based position of the for loop over element.table_cells
    pc,           \* "loop" | "cells" | "done" | "raised"
    raised,       \* the exception that left to_ds_document (Optional)
    ret,          \* the returned DsDocument (Optional)
    \* InputDocument.__init__
    args,         \* its arguments and what the file system / backend answer
    doc,          \* the InputDocument fields
    ipc           \* "init" | "opened" | "done" | "raised"

asm_vars == <<pages, elements, status, errors, output, main_text, tables, figures,
              table_data, target_bbox, idx, cidx, pc, raised, ret>>

in_vars == <<args, doc, ipc>>

vars == <<pages, elements, status, errors, output, main_text, tables, figures,
          table_data, target_bbox, idx, cidx, pc, raised, ret, args, doc, ipc>>

\* ------------------------------------------------------------- to_ds_document
\* page_no_to_page = {p.page_no: p for p in self.pages}: a later page of the
\* same number replaces an earlier one.
page_no_to_page ==
    [n \in {pages[k].page_no : k \in DOMAIN pages} |->
        pages[CHOOSE k \in DOMAIN pages :
                /\ pages[k].page_no = n
                /\ \A m \in DOMAIN pages : pages[m].page_no = n => m <= k]]

\* page_no_to_page[element.page_no] raises KeyError
PageKeyError(element) == element.page_no \notin DOMAIN page_no_to_page

\* the height of the first page, whatever page the element is on
PageHeightFirst(element) == pages[1].height

\* page_no_to_page[element.page_no].size.height
PageHeight(element) == page_no_to_page[element.page_no].height

\* the element of the current loop iteration
CurElement == elements[idx + 1]

\* the span declaration of the current inner loop iteration
CurCell == CurElement.table_cells[cidx + 1]

\* lines 147-151
TargetBBox(element) == to_bottom_left_origin(element.bbox, PageHeight(element))

Prov(bbox, page, span) == [bbox |-> bbox, page |-> page, span |-> span]

\* lines 155-166
BaseText(element) ==
    [node |-> "text",
     text |-> element.text,
     obj_type |-> layout_label_to_ds_type(element.label),
     name |-> element.label,
     ref |-> "",
     prov |-> <<Prov(TargetBBox(element), element.page_no, <<0, Len(element.text)>>)>>]

\* lines 172-176 and 256-260
Ref(element, ref_str) ==
    [node |-> "ref",
     text |-> "",
     obj_type |-> layout_label_to_ds_type(element.label),
     name |-> element.label,
     ref |-> ref_str,
     prov |-> <<>>]

\* the grid with a row too many
EmptyGridExtraRow(num_rows, num_cols) ==
    [a \in 1..(num_rows + 1) |->
        [b \in 1..num_cols |->
            [text |-> "", bbox |-> None, spans |-> <<<<a - 1, b - 1>>>>,
             obj_type |-> "body"]]]

\* lines 180-191: the grid of empty body cells
EmptyGrid(num_rows, num_cols) ==
    [a \in 1..num_rows |->
        [b \in 1..num_cols |->
            [text |-> "", bbox |-> None, spans |-> <<<<a - 1, b - 1>>>>,
             obj_type |-> "body"]]]

\* the row-header flag checked first
CellTypeRowFirst(cell) ==
    IF cell.row_header THEN "row_header"
    ELSE IF cell.column_header THEN "col_header"
    ELSE "body"

\* lines 203-207
CellType(cell) ==
    IF cell.column_header THEN "col_header"
    ELSE IF cell.row_header THEN "row_header"
    ELSE "body"

\* lines 195-198 and 210-213: the row indices a span iterates over
RowRange(cell, element) ==
    PyRangeSeq(Min(cell.start_row_offset_idx, element.num_rows),
               Min(cell.end_row_offset_idx, element.num_rows))

\* lines 199-202 and 214-219: the column indices a span iterates over
ColRange(cell, element) ==
    PyRangeSeq(Min(cell.start_col_offset_idx, element.num_cols),
               Min(cell.end_col_offset_idx, element.num_cols))

\* lines 209-222: list(make_spans(cell)), row-major
make_spans(cell, element) ==
    LET rs == RowRange(cell, element)
        cs == ColRange(cell, element)
    IN  [k \in 1..(Len(rs) * Len(cs)) |->
            <<rs[((k - 1) \div Len(cs)) + 1], cs[((k - 1) % Len(cs)) + 1]>>]

\* lines 223-234: the TableCell stored for a span
MakeTableCell(cell, element) ==
    [text |-> cell.text,
     bbox |-> to_bottom_left_origin(cell.bbox, PageHeight(element)),
     spans |-> make_spans(cell, element),
     obj_type |-> CellType(cell)]

\* The first store table_data[i][j] = ... of a span raises IndexError: the
\* loops start at the smallest i and j, so a span either fails on its first
\* store or on none.
CellIndexError(cell, element) ==
    LET rs == RowRange(cell, element)
        cs == ColRange(cell, element)
    IN  /\ Len(rs) > 0
        /\ Len(cs) > 0
        /\ \/ PyIndexError(rs[1], element.num_rows)
           \/ PyIndexError(cs[1], element.num_cols)

\* lines 195-234 for one span: every table_data[i][j] of the two ranges is
\* replaced, a negative i or j counting from the end of the list.
WriteCells(grid, cell, element) ==
    LET rs == RowRange(cell, element)
        cs == ColRange(cell, element)
        hit(a, b) == \E x \in DOMAIN rs, y \in DOMAIN cs :
                        /\ PyIndex(rs[x], element.num_rows) = a - 1
                        /\ PyIndex(cs[y], element.num_cols) = b - 1
    IN  [a \in DOMAIN grid |->
            [b \in DOMAIN grid[a] |->
                IF hit(a, b) THEN MakeTableCell(cell, element) ELSE grid[a][b]]]

\* lines 237-249
DsSchemaTable(element, data, bbox) ==
    [num_cols |-> element.num_cols,
     num_rows |-> element.num_rows,
     obj_type |-> layout_label_to_ds_type(element.label),
     data |-> data,
     prov |-> <<Prov(bbox, element.page_no, <<0, 0>>)>>]

\* lines 263-273
BaseCell(element) ==
    [prov |-> <<Prov(TargetBBox(element), element.page_no, <<0, 0>>)>>,
     obj_type |-> layout_label_to_ds_type(element.label)]

\* lines 276-279
PageDimensions ==
    [k \in DOMAIN pages |->
        [page |-> pages[k].page_no, height |-> pages[k].height, width |-> pages[k].width]]

\* lines 127-137
FileInfo ==
    [filename |-> doc.file,
     document_hash |-> doc.document_hash,
     num_pages |-> doc.page_count,
     page_hashes |-> [k \in DOMAIN pages |->
                        [hash |-> pages[k].page_hash, page |-> pages[k].page_no,
                         model |-> "default"]]]

\* lines 124-125 and 281-289
DsDocument ==
    [name |-> "",
     description |-> [logs |-> <<>>],
     file_info |-> FileInfo,
     main_text |-> main_text,
     tables |-> tables,
     figures |-> figures,
     page_dimensions |-> PageDimensions]

\* for element in self.assembled.elements: the loop has an element left
HasElement == pc = "loop" /\ idx < Len(elements)

\* the element of an unknown page is skipped
PageFaultSkip ==
    /\ pc = "loop" /\ idx < Len(elements)
    /\ PageKeyError(CurElement)
    /\ idx' = idx + 1
    /\ UNCHANGED <<pages, elements, status, errors, output, main_text, tables,
                   figures, table_data, target_bbox, cidx, pc, raised, ret>>
    /\ UNCHANGED in_vars

\* lines 147-151 raise KeyError: the element's page is not in self.pages
PageFault ==
    /\ HasElement
    /\ PageKeyError(CurElement)
    /\ pc' = "raised"
    /\ raised' = <<"KeyError">>
    /\ UNCHANGED <<pages, elements, status, errors, output, main_text, tables,
                   figures, table_data, target_bbox, idx, cidx, ret>>
    /\ UNCHANGED in_vars

\* lines 153-167
TextElement ==
    /\ HasElement
    /\ ~PageKeyError(CurElement)
    /\ CurElement.variant = "Text"
    /\ target_bbox' = <<TargetBBox(CurElement)>>
    /\ main_text' = Append(main_text, BaseText(CurElement))
    /\ idx' = idx + 1
    /\ UNCHANGED <<pages, elements, status, errors, output, tables, figures,
                   table_data, cidx, pc, raised, ret>>
    /\ UNCHANGED in_vars

\* lines 168-191: the reference node and the grid of empty cells
TableBegin ==
    /\ HasElement
    /\ ~PageKeyError(CurElement)
    /\ CurElement.variant = "Table"
    /\ target_bbox' = <<TargetBBox(CurElement)>>
    /\ main_text' = Append(main_text, Ref(CurElement, RefStr("tables", Len(tables))))
    /\ table_data' = EmptyGrid(CurElement.num_rows, CurElement.num_cols)
    /\ cidx' = 0
    /\ pc' = "cells"
    /\ UNCHANGED <<pages, elements, status, errors, output, tables, figures,
                   idx, raised, ret>>
    /\ UNCHANGED in_vars

\* lines 194-234 for one span declaration
TableCellStep ==
    /\ pc = "cells"
    /\ cidx < Len(CurElement.table_cells)
    /\ ~CellIndexError(CurCell, CurElement)
    /\ table_data' = WriteCells(table_data, CurCell, CurElement)
    /\ cidx' = cidx + 1
    /\ UNCHANGED <<pages, elements, status, errors, output, main_text, tables,
                   figures, target_bbox, idx, pc, raised, ret>>
    /\ UNCHANGED in_vars

\* line 223 raises IndexError
TableCellFault ==
    /\ pc = "cells"
    /\ cidx < Len(CurElement.table_cells)
    /\ CellIndexError(CurCell, CurElement)
    /\ pc' = "raised"
    /\ raised' = <<"IndexError">>
    /\ UNCHANGED <<pages, elements, status, errors, output, main_text, tables,
                   figures, table_data, target_bbox, idx, cidx, ret>>
    /\ UNCHANGED in_vars

\* lines 236-250
TableEnd ==
    /\ pc = "cells"
    /\ cidx = Len(CurElement.table_cells)
    /\ tables' = Append(tables, DsSchemaTable(CurElement, table_data, target_bbox[1]))
    /\ idx' = idx + 1
    /\ pc' = "loop"
    /\ UNCHANGED <<pages, elements, status, errors, output, main_text, figures,
                   table_data, target_bbox, cidx, raised, ret>>
    /\ UNCHANGED in_vars

\* lines 252-274
FigureElement ==
    /\ HasElement
    /\ ~PageKeyError(CurElement)
    /\ CurElement.variant = "Figure"
    /\ target_bbox' = <<TargetBBox(CurElement)>>
    /\ main_text' = Append(main_text, Ref(CurElement, RefStr("figures", Len(figures))))
    /\ figures' = Append(figures, BaseCell(CurElement))
    /\ idx' = idx + 1
    /\ UNCHANGED <<pages, elements, status, errors, output, tables, table_data,
                   cidx, pc, raised, ret>>
    /\ UNCHANGED in_vars

\* lines 276-291
Return ==
    /\ pc = "loop"
    /\ idx = Len(elements)
    /\ ret' = <<DsDocument>>
    /\ pc' = "done"
    /\ UNCHANGED <<pages, elements, status, errors, output, main_text, tables,
                   figures, table_data, target_bbox, idx, cidx, raised>>
    /\ UNCHANGED in_vars

\* ------------------------------------------------------------- inputs
\* Page sizes of the documents that are converted; page n is 792 - 92 * (n - 1) high.
Page(n) ==
    [page_no |-> n, page_hash |-> "hash-of-page", height |-> 792 - (92 * (n - 1)),
     width |-> 612]

\* self.pages: page 1 alone, or pages 1 and 2
PageLists == {<<Page(1)>>, <<Page(1), Page(2)>>}

\* the page numbers elements refer to
PageNos == {1, 2}

ElementBox == <<10, 20, 110, 70>>

CellTexts == <<"A", "B", "C", "D">>

\* a table cell of the table structure model: the k-th declaration of a table
\* carries the k-th text and its own box
SpanDecl(k, g, ch, rh) ==
    [start_row_offset_idx |-> g[1],
     end_row_offset_idx |-> g[2],
     start_col_offset_idx |-> g[3],
     end_col_offset_idx |-> g[4],
     text |-> CellTexts[k],
     bbox |-> <<k, 10 * k, k + 5, (10 * k) + 8>>,
     column_header |-> ch,
     row_header |-> rh]

\* (start_row, end_row, start_col, end_col) of span declarations: inside the
\* table, past its end, and before its start
SpanRanges ==
    {<<0, 2, 0, 2>>, <<1, 3, 0, 2>>, <<2, 4, 0, 2>>, <<0, 1, 1, 3>>,
     <<0 - 1, 1, 0, 2>>, <<0, 2, 0 - 1, 1>>}

SpanShapes == {<<g, ch, rh>> : g \in SpanRanges, ch \in BOOLEAN, rh \in BOOLEAN}

SpanLists ==
    {[k \in DOMAIN q |-> SpanDecl(k, q[k][1], q[k][2], q[k][3])] :
        q \in SeqsUpTo(SpanShapes, MaxSpans)}

TextEl(label, page_no, text) ==
    [variant |-> "Text", label |-> label, page_no |-> page_no, bbox |-> ElementBox,
     text |-> text, num_rows |-> 0, num_cols |-> 0, table_cells |-> <<>>]

FigureEl(label, page_no) ==
    [variant |-> "Figure", label |-> label, page_no |-> page_no, bbox |-> ElementBox,
     text |-> "", num_rows |-> 0, num_cols |-> 0, table_cells |-> <<>>]

TableEl(label, page_no, num_rows, num_cols, table_cells) ==
    [variant |-> "Table", label |-> label, page_no |-> page_no, bbox |-> ElementBox,
     text |-> "", num_rows |-> num_rows, num_cols |-> num_cols,
     table_cells |-> table_cells]

Labels == {"Code", "Unknown-Foo"}

\* the elements of a document with several elements; its tables are a 2 x 1
\* table with one header cell over both rows and, on page 1, a table without
\* rows whose only declaration starts before row 0
RouteElements ==
    {TextEl(l, p, "x=1") : l \in Labels, p \in PageNos}
    \cup {FigureEl(l, p) : l \in Labels, p \in PageNos}
    \cup {TableEl(l, p, 2, 1, <<SpanDecl(1, <<0, 2, 0, 1>>, TRUE, FALSE)>>) :
            l \in Labels, p \in PageNos}
    \cup {TableEl("Table", 1, 0, 1, <<SpanDecl(1, <<0 - 1, 1, 0, 1>>, FALSE, FALSE)>>)}

\* ------------------------------------------------------------- InputDocument
\* What a call of InputDocument(path_or_stream, filename, limits, pdf_backend)
\* meets: the kind of path_or_stream, the file's size, what stat(),
\* create_file_hash and the backend's constructor do, and the backend's page count.
Calls ==
    [kind : {"Path", "BytesIO", "other"},
     filename : {None, <<"a.pdf">>},
     filesize : 0..MaxSize,
     stat : {"ok", "FileNotFoundError", "OSError"},
     hash : {"ok", "OSError"},
     backend : {"ok", "RuntimeError", "FileNotFoundError"},
     page_count : 0..(MaxPageCount + 1),
     max_file_size : 0..MaxSize,
     max_num_pages : 1..MaxPageCount]

\* lines 52-60 and 69-71: the fields after super().__init__() and self.limits = ...
NewDocument(a) ==
    [file |-> None, document_hash |-> None, valid |-> FALSE, filesize |-> None,
     page_count |-> None, backend |-> None,
     limits |-> [max_file_size |-> a.max_file_size, max_num_pages |-> a.max_num_pages]]

\* line 74 / line 83: which branch of the isinstance chain is taken
IsPath == args.kind = "Path"

IsStream == args.kind = "BytesIO"

\* line 84: PurePath(None) raises TypeError, which no except clause catches
NoFilename == IsStream /\ args.filename = None

\* line 76: path_or_stream.stat() raises
StatRaises == IsPath /\ args.stat # "ok"

\* lines 75-76 / 84-85 ran: self.file and self.filesize are set
Sized ==
    \/ IsPath /\ args.stat = "ok"
    \/ IsStream /\ args.filename # None

\* self.file of the two branches
FileOf(a) == IF a.kind = "Path" THEN <<"a.pdf">> ELSE a.filename

\* lines 77 / 87
TooLarge == args.filesize > doc.limits.max_file_size

\* lines 75-78 and 84-88: the file is larger than limits.max_file_size
OpenTooLarge ==
    /\ ipc = "init"
    /\ Sized
    /\ TooLarge
    /\ doc' = [doc EXCEPT !.file = FileOf(args), !.filesize = <<args.filesize>>,
                          !.valid = FALSE]
    /\ ipc' = "opened"
    /\ UNCHANGED args
    /\ UNCHANGED asm_vars

\* lines 75-81 and 84-91: the hash is computed and the backend opened
Open ==
    /\ ipc = "init"
    /\ Sized
    /\ ~TooLarge
    /\ args.hash = "ok"
    /\ args.backend = "ok"
    /\ doc' = [doc EXCEPT !.file = FileOf(args), !.filesize = <<args.filesize>>,
                          !.document_hash = <<"hash">>, !.backend = <<"backend">>]
    /\ ipc' = "opened"
    /\ UNCHANGED args
    /\ UNCHANGED asm_vars

\* neither a Path nor a BytesIO: no branch of lines 74-91 runs
OpenOther ==
    /\ ipc = "init"
    /\ ~IsPath
    /\ ~IsStream
    /\ ipc' = "opened"
    /\ UNCHANGED <<args, doc>>
    /\ UNCHANGED asm_vars

\* line 76 raises FileNotFoundError or OSError, caught at line 99
StatFails ==
    /\ ipc = "init"
    /\ StatRaises
    /\ doc' = [doc EXCEPT !.file = FileOf(args)]
    /\ ipc' = "done"
    /\ UNCHANGED args
    /\ UNCHANGED asm_vars

\* line 80 / 90 raises OSError, caught at line 99
HashFails ==
    /\ ipc = "init"
    /\ Sized
    /\ ~TooLarge
    /\ args.hash # "ok"
    /\ doc' = [doc EXCEPT !.file = FileOf(args), !.filesize = <<args.filesize>>]
    /\ ipc' = "done"
    /\ UNCHANGED args
    /\ UNCHANGED asm_vars

\* line 81 / 91 raises FileNotFoundError or RuntimeError, caught at line 99 / 104
BackendFails ==
    /\ ipc = "init"
    /\ Sized
    /\ ~TooLarge
    /\ args.hash = "ok"
    /\ args.backend # "ok"
    /\ doc' = [doc EXCEPT !.file = FileOf(args), !.filesize = <<args.filesize>>,
                          !.document_hash = <<"hash">>]
    /\ ipc' = "done"
    /\ UNCHANGED args
    /\ UNCHANGED asm_vars

\* line 84 raises TypeError, which leaves __init__
FilenameFails ==
    /\ ipc = "init"
    /\ NoFilename
    /\ ipc' = "raised"
    /\ UNCHANGED <<args, doc>>
    /\ UNCHANGED asm_vars

\* a document without pages passes
HasPagesOrNone == doc.document_hash # None /\ args.page_count >= 0

\* line 93
HasPages == doc.document_hash # None /\ args.page_count > 0

\* line 96
WithinPageLimit == args.page_count <= doc.limits.max_num_pages

\* lines 93-97
CountPages ==
    /\ ipc = "opened"
    /\ doc' = IF HasPages
              THEN [doc EXCEPT !.page_count = <<args.page_count>>,
                               !.valid = IF WithinPageLimit THEN TRUE ELSE @]
              ELSE doc
    /\ ipc' = "done"
    /\ UNCHANGED args
    /\ UNCHANGED asm_vars

InitInput ==
    /\ args \in Calls
    /\ doc = NewDocument(args)
    /\ ipc = "init"
    /\ pages = <<>>
    /\ elements = <<>>
    /\ status = "PENDING"
    /\ errors = <<>>
    /\ output = None
    /\ main_text = <<>>
    /\ tables = <<>>
    /\ figures = <<>>
    /\ table_data = <<>>
    /\ target_bbox = None
    /\ idx = 0
    /\ cidx = 0
    /\ pc = "loop"
    /\ raised = None
    /\ ret = None

NextInput ==
    \/ OpenTooLarge
    \/ Open
    \/ OpenOther
    \/ StatFails
    \/ HashFails
    \/ BackendFails
    \/ FilenameFails
    \/ CountPages

SpecInput == InitInput /\ [][NextInput]_vars

\* ------------------------------------------------------------- assembly runs
\* the InputDocument of a ConvertedDocument: an opened one-page file
Constructed ==
    /\ args = [kind |-> "Path", filename |-> None, filesize |-> 1, stat |-> "ok",
               hash |-> "ok", backend |-> "ok", page_count |-> 1,
               max_file_size |-> 1, max_num_pages |-> 1]
    /\ doc = [file |-> <<"a.pdf">>, document_hash |-> <<"hash">>, valid |-> TRUE,
              filesize |-> <<1>>, page_count |-> <<1>>, backend |-> <<"backend">>,
              limits |-> [max_file_size |-> 1, max_num_pages |-> 1]]
    /\ ipc = "done"

\* the state in which to_ds_document is entered (lines 115-121, 139-141)
Entry ==
    /\ status = "PENDING"
    /\ errors = <<>>
    /\ output = None
    /\ main_text = <<>>
    /\ tables = <<>>
    /\ figures = <<>>
    /\ table_data = <<>>
    /\ target_bbox = None
    /\ idx = 0
    /\ cidx = 0
    /\ pc = "loop"
    /\ raised = None
    /\ ret = None

\* a document of up to MaxElems elements on up to MaxPage pages
Init ==
    /\ pages \in PageLists
    /\ elements \in SeqsUpTo(RouteElements, MaxElems)
    /\ Entry
    /\ Constructed

Next ==
    \/ PageFault
    \/ TextElement
    \/ TableBegin
    \/ TableCellStep
    \/ TableCellFault
    \/ TableEnd
    \/ FigureElement
    \/ Return

Spec == Init /\ [][Next]_vars

\* one table of up to MaxRows x MaxCols cells with up to MaxSpans declarations
InitGrid ==
    /\ pages = <<Page(1)>>
    /\ \E r \in 0..MaxRows, c \in 0..MaxCols, cells \in SpanLists :
          elements = <<TableEl("Table", 1, r, c, cells)>>
    /\ Entry
    /\ Constructed

NextGrid ==
    \/ TableBegin
    \/ TableCellStep
    \/ TableCellFault
    \/ TableEnd
    \/ Return

SpecGrid == InitGrid /\ [][NextGrid]_vars

\* ------------------------------------------------------------- properties
IsTable(e) == e.variant = "Table"

IsFigure(e) == e.variant = "Figure"

\* the Table elements, in input order: tables[k] is made from TableElements[k]
TableElements == SelectSeq(elements, IsTable)

FigureElements == SelectSeq(elements, IsFigure)

\* every grid there is: the finished ones, and the one being filled, each with
\* its element and the number of span declarations already processed
Grids ==
    {<<tables[k].data, TableElements[k], Len(TableElements[k].table_cells)>> :
        k \in DOMAIN tables}
    \cup (IF pc = "cells" THEN {<<table_data, CurElement, cidx>>} ELSE {})

\* grid g has r rows of c cells each
HasShape(g, r, c) == Len(g) = r /\ \A a \in 1..r : Len(g[a]) = c

\* the number of positions of grid g
Positions(g) == Cardinality(UNION {{<<a, b>> : b \in DOMAIN g[a]} : a \in DOMAIN g})

\* C1: every grid to_ds_document builds for a table element declared with r
\* rows and c columns has exactly r rows of exactly c cells (r * c positions,
\* none when r = 0 or c = 0), whatever the span declarations are, and the
\* num_rows / num_cols of the output table are the grid's dimensions.
C1_GridDimensions ==
    /\ \A g \in Grids :
          /\ HasShape(g[1], g[2].num_rows, g[2].num_cols)
          /\ Positions(g[1]) = g[2].num_rows * g[2].num_cols
          /\ (g[2].num_rows = 0 \/ g[2].num_cols = 0) => Positions(g[1]) = 0
    /\ \A k \in DOMAIN tables :
          /\ tables[k].num_rows = TableElements[k].num_rows
          /\ tables[k].num_cols = TableElements[k].num_cols
          /\ HasShape(tables[k].data, tables[k].num_rows, tables[k].num_cols)

\* a 2 x 2 table whose two declarations both reach past the last row is stored
C1_Witness ==
    /\ pc = "done"
    /\ Len(ret[1].tables) = 1
    /\ ret[1].tables[1].num_rows = 2
    /\ ret[1].tables[1].num_cols = 2
    /\ Len(elements[1].table_cells) = 2
    /\ \A k \in 1..2 : elements[1].table_cells[k].end_row_offset_idx > 2

\* the kind the two flags of a span declaration stand for
KindOfFlags(column_header, row_header) ==
    IF column_header THEN "col_header" ELSE IF row_header THEN "row_header" ELSE "body"

\* C9: the kind of every cell written for a span declaration is column header
\* if is-column-header is set (also when is-row-header is set too), else row
\* header if is-row-header is set, else body; nothing else decides it.  (The
\* text of a cell names the declaration that wrote it.)
C9_KindFromFlags ==
    \A g \in Grids : \A a \in DOMAIN g[1] : \A b \in DOMAIN g[1][a] :
        /\ g[1][a][b].text = "" => g[1][a][b].obj_type = "body"
        /\ \A k \in DOMAIN g[2].table_cells :
              g[1][a][b].text = g[2].table_cells[k].text =>
                  g[1][a][b].obj_type = KindOfFlags(g[2].table_cells[k].column_header,
                                                    g[2].table_cells[k].row_header)

\* a declaration with both flags set has replaced the cell of a row header
C9_Witness ==
    /\ pc = "done"
    /\ Len(elements[1].table_cells) = 2
    /\ elements[1].table_cells[1].row_header /\ ~elements[1].table_cells[1].column_header
    /\ elements[1].table_cells[2].row_header /\ elements[1].table_cells[2].column_header
    /\ elements[1].num_rows = 2 /\ elements[1].num_cols = 2
    /\ tables[1].data[1][2].text = "B"
    /\ tables[1].data[1][2].obj_type = "col_header"
    /\ tables[1].data[2][2].text = "A"
    /\ tables[1].data[2][2].obj_type = "row_header"

Range(q) == {q[k] : k \in DOMAIN q}

\* the height of the page numbered n
HeightOfPage(n) == (CHOOSE p \in Range(pages) : p.page_no = n).height

\* top' = pageHeight - bottom, bottom' = pageHeight - top, left and right kept
Normalized(b, h) == <<b[1], h - b[4], b[3], h - b[2]>>

\* the (row, col) pairs of a declaration's range clipped to [0, rows) x [0, cols)
Clipped(cell, element) ==
    {<<i, j>> \in (0..(element.num_rows - 1)) \X (0..(element.num_cols - 1)) :
        /\ Max(0, cell.start_row_offset_idx) <= i
        /\ i < Min(cell.end_row_offset_idx, element.num_rows)
        /\ Max(0, cell.start_col_offset_idx) <= j
        /\ j < Min(cell.end_col_offset_idx, element.num_cols)}

\* no declaration of the element has a negative offset
NonNegative(element) ==
    \A k \in DOMAIN element.table_cells :
        /\ element.table_cells[k].start_row_offset_idx >= 0
        /\ element.table_cells[k].end_row_offset_idx >= 0
        /\ element.table_cells[k].start_col_offset_idx >= 0
        /\ element.table_cells[k].end_col_offset_idx >= 0

\* C2: in a reconstructed table, the cell stored at (i, j) lists (i, j) in its
\* span set, and every position its span set lists holds a cell with the same
\* text, box, kind and span set.  Stated for the declarations the claim names:
\* offsets that are not negative, spans that may overlap earlier ones in part.
C2_OwnershipPartition ==
    \A k \in DOMAIN tables :
        NonNegative(TableElements[k]) =>
            \A a \in DOMAIN tables[k].data : \A b \in DOMAIN tables[k].data[a] :
                LET c == tables[k].data[a][b]
                IN  /\ <<a - 1, b - 1>> \in Range(c.spans)
                    /\ \A s \in Range(c.spans) :
                          /\ s[1] + 1 \in DOMAIN tables[k].data
                          /\ s[2] + 1 \in DOMAIN tables[k].data[s[1] + 1]
                          /\ tables[k].data[s[1] + 1][s[2] + 1] = c

\* table k agrees with the last declaration that covers each position
LastWriteWinsAt(k) ==
    LET e == TableElements[k]
    IN  \A a \in DOMAIN tables[k].data : \A b \in DOMAIN tables[k].data[a] :
            LET c == tables[k].data[a][b]
                over == {n \in DOMAIN e.table_cells :
                            <<a - 1, b - 1>> \in Clipped(e.table_cells[n], e)}
                last == CHOOSE n \in over : \A m \in over : m <= n
            IN  IF over = {}
                THEN /\ c.text = ""
                     /\ c.obj_type = "body"
                     /\ c.spans = <<<<a - 1, b - 1>>>>
                ELSE /\ c.text = e.table_cells[last].text
                     /\ c.bbox = Normalized(e.table_cells[last].bbox,
                                            HeightOfPage(e.page_no))
                     /\ c.obj_type = KindOfFlags(e.table_cells[last].column_header,
                                                 e.table_cells[last].row_header)
                     /\ Range(c.spans) = Clipped(e.table_cells[last], e)

\* C3: in a reconstructed table, the cell at (i, j) has the text, normalized
\* box, kind and (as a set) the clipped range of the last declaration whose
\* clipped range contains (i, j); without such a declaration it is the empty
\* body cell spanning (i, j) alone.
C3_LastWriteWins == \A k \in DOMAIN tables : LastWriteWinsAt(k)

\* the step of one span declaration changes no position outside its clipped range
ClipFrameStep ==
    cidx' = cidx + 1 =>
        \A a \in DOMAIN table_data : \A b \in DOMAIN table_data[a] :
            <<a - 1, b - 1>> \notin Clipped(CurCell, CurElement) =>
                table_data'[a][b] = table_data[a][b]

\* C4: processing a span declaration raises no error and changes no position
\* outside the declaration's range clipped to [0, rows) x [0, cols), whatever
\* its offsets are.
C4_ClipFrame == [][pc = "cells" => (raised' = None /\ ClipFrameStep)]_vars

\* What the code does keep of C3 and C4: both hold of the tables whose
\* declarations have no negative offset.
NonNegativeLastWriteWins ==
    \A k \in DOMAIN tables : NonNegative(TableElements[k]) => LastWriteWinsAt(k)

NonNegativeClipFrame ==
    [][(pc = "cells" /\ NonNegative(CurElement)) => (raised' = None /\ ClipFrameStep)]_vars

\* the number of elements of the variant among the first n elements
CountBefore(Test(_), n) == Len(SelectSeq(SubSeq(elements, 1, n), Test))

\* the pages every element refers to are in self.pages
PageNumbers == {pages[k].page_no : k \in DOMAIN pages}

AllPagesKnown == \A n \in DOMAIN elements : elements[n].page_no \in PageNumbers

\* the semantic type the label mapping documents for the labels of the elements
DocumentedType(label) ==
    IF label = "Code" THEN <<"paragraph">>
    ELSE IF label = "Table" THEN <<"table">>
    ELSE None

\* C5, in every state: the node of the k-th Table (Figure) element is the
\* reference "#/tables/k" ("#/figures/k"), k counting the elements of that
\* variant alone; tables[k] and figures[k] are made from these elements; a
\* reference never points past the entry that is being built; and in the
\* returned document every reference indexes an entry of its list.
ReferencesIndexChannels ==
    /\ \A n \in DOMAIN main_text :
          /\ IsTable(elements[n]) =>
                /\ main_text[n].ref = "#/tables/" \o ToString(CountBefore(IsTable, n - 1))
                /\ CountBefore(IsTable, n - 1) <= Len(tables)
                /\ CountBefore(IsTable, n - 1) = Len(tables) => pc = "cells" \/ pc = "raised"
          /\ IsFigure(elements[n]) =>
                /\ main_text[n].ref = "#/figures/" \o ToString(CountBefore(IsFigure, n - 1))
                /\ CountBefore(IsFigure, n - 1) < Len(figures)
    /\ \A k \in DOMAIN tables :
          /\ tables[k].prov[1].page = TableElements[k].page_no
          /\ tables[k].obj_type = DocumentedType(TableElements[k].label)
          /\ tables[k].num_rows = TableElements[k].num_rows
    /\ \A k \in DOMAIN figures :
          /\ figures[k].prov[1].page = FigureElements[k].page_no
          /\ figures[k].obj_type = DocumentedType(FigureElements[k].label)
    /\ pc = "done" =>
          /\ ret[1].tables = tables /\ ret[1].figures = figures
          /\ \A n \in DOMAIN ret[1].main_text :
                ret[1].main_text[n].node = "ref" =>
                    \/ \E k \in 0..(Len(tables) - 1) :
                          ret[1].main_text[n].ref = "#/tables/" \o ToString(k)
                    \/ \E k \in 0..(Len(figures) - 1) :
                          ret[1].main_text[n].ref = "#/figures/" \o ToString(k)

\* C5, in every step: an entry of tables, figures or main_text is never moved
\* or removed.
EntriesStay ==
    /\ \A k \in DOMAIN tables : k \in DOMAIN tables' /\ tables'[k] = tables[k]
    /\ \A k \in DOMAIN figures : k \in DOMAIN figures' /\ figures'[k] = figures[k]
    /\ \A k \in DOMAIN main_text : k \in DOMAIN main_text' /\ main_text'[k] = main_text[k]

\* C5: reference stability over any interleaved sequence of Text, Table and
\* Figure elements (ReferencesIndexChannels in every state, EntriesStay in
\* every step).
C5_ReferenceStability == []ReferencesIndexChannels /\ [][EntriesStay]_vars

\* a table, a figure and a second table were converted: the second table is
\* "#/tables/1", the figure "#/figures/0"
C5_Witness ==
    /\ pc = "done"
    /\ Len(elements) = 3
    /\ IsTable(elements[1]) /\ IsFigure(elements[2]) /\ IsTable(elements[3])
    /\ main_text[2].ref = "#/figures/0"
    /\ main_text[3].ref = "#/tables/1"
    /\ Len(tables) = 2
    /\ tables[2].prov[1].page = elements[3].page_no
    /\ elements[1].page_no # elements[3].page_no

\* C6: main_text holds one node per converted element, in input order: an
\* inline text node for a Text element, a reference node for a Table or Figure
\* element, named by the element's label and typed by the label mapping (no
\* type for a label the mapping lacks); the returned document holds a node for
\* every element; and with every page known, assembly is never aborted for a
\* label: the one abort left is the IndexError of a table whose declaration
\* starts before row or column 0 (C4).
C6_MainTextOrder ==
    /\ Len(main_text) <= Len(elements)
    /\ \A n \in DOMAIN main_text :
          /\ main_text[n].node = (IF elements[n].variant = "Text" THEN "text" ELSE "ref")
          /\ main_text[n].name = elements[n].label
          /\ main_text[n].obj_type = DocumentedType(elements[n].label)
          /\ elements[n].variant = "Text" =>
                /\ main_text[n].text = elements[n].text
                /\ main_text[n].prov[1].page = elements[n].page_no
                /\ main_text[n].prov[1].span = <<0, Len(elements[n].text)>>
    /\ pc = "done" =>
          /\ Len(ret[1].main_text) = Len(elements)
          /\ ret[1].main_text = main_text
    /\ (AllPagesKnown /\ pc = "raised") =>
          /\ IsTable(CurElement)
          /\ ~NonNegative(CurElement)

\* a document whose elements are not in page order and whose table carries an
\* unmapped label is assembled
C6_Witness ==
    /\ pc = "done"
    /\ Len(elements) = 3
    /\ elements[1].variant = "Text" /\ elements[1].page_no = 2
    /\ elements[2].variant = "Table" /\ elements[2].page_no = 1
    /\ elements[2].label = "Unknown-Foo"
    /\ elements[3].variant = "Text" /\ elements[3].page_no = 1
    /\ elements[3].label = "Code"
    /\ ret[1].main_text[2].node = "ref"
    /\ ret[1].main_text[2].obj_type = None
    /\ ret[1].main_text[3].obj_type = <<"paragraph">>

\* an element refers to a page that self.pages lacks
PageMissing == ~AllPagesKnown

\* C7: when an element, at any position, refers to a page number absent from
\* pages, to_ds_document returns no document: it never reaches its return,
\* and where it stops it has raised; and no step of a call changes pages,
\* assembled, output, status or errors of the ConvertedDocument.
C7_MissingPageAborts ==
    /\ [](PageMissing =>
            /\ ret = None
            /\ pc # "done"
            /\ ~(pc = "loop" /\ idx = Len(elements))
            /\ (~ENABLED Next) => (pc = "raised" /\ raised # None)
            /\ status = "PENDING" /\ errors = <<>> /\ output = None)
    /\ [][UNCHANGED <<pages, elements, status, errors, output>>]_vars

\* the third element refers to the missing page 2: a table and a text node
\* were assembled before the KeyError, and nothing is returned
C7_Witness ==
    /\ pc = "raised"
    /\ raised = <<"KeyError">>
    /\ idx = 2
    /\ Len(elements) = 3
    /\ elements[3].page_no = 2
    /\ Len(tables) = 1
    /\ Len(main_text) = 2
    /\ ret = None
    /\ output = None

\* boxes and page heights for the round trip
SampleBoxes == [1..4 -> {7, 900}]

SampleHeights == {1, 792}

\* C8: normalizing a box twice with the same page height gives the box back,
\* and every box of the assembly (of a text node, a table, a figure and a
\* table cell) is the element's or declaration's box with top' = h - bottom,
\* bottom' = h - top, left and right unchanged, h the height of the page the
\* owning element refers to.
C8_Normalization ==
    /\ \A b \in SampleBoxes : \A h \in SampleHeights :
          to_bottom_left_origin(to_bottom_left_origin(b, h), h) = b
    /\ \A n \in DOMAIN main_text :
          elements[n].variant = "Text" =>
              LET h == HeightOfPage(elements[n].page_no)
                  b == main_text[n].prov[1].bbox
              IN  /\ b = Normalized(elements[n].bbox, h)
                  /\ to_bottom_left_origin(b, h) = elements[n].bbox
    /\ \A k \in DOMAIN figures :
          figures[k].prov[1].bbox =
              Normalized(FigureElements[k].bbox, HeightOfPage(FigureElements[k].page_no))
    /\ \A k \in DOMAIN tables :
          LET e == TableElements[k]
              h == HeightOfPage(e.page_no)
          IN  /\ tables[k].prov[1].bbox = Normalized(e.bbox, h)
              /\ \A a \in DOMAIN tables[k].data : \A b \in DOMAIN tables[k].data[a] :
                    \A m \in DOMAIN e.table_cells :
                        tables[k].data[a][b].text = e.table_cells[m].text =>
                            /\ tables[k].data[a][b].bbox = Normalized(e.table_cells[m].bbox, h)
                            /\ to_bottom_left_origin(tables[k].data[a][b].bbox, h)
                                  = e.table_cells[m].bbox

\* a text on page 1 (792 high) and a table on page 2 (700 high) were converted
C8_Witness ==
    /\ pc = "done"
    /\ Len(elements) = 2
    /\ elements[1].variant = "Text" /\ elements[1].page_no = 1
    /\ IsTable(elements[2]) /\ elements[2].page_no = 2
    /\ main_text[1].prov[1].bbox = <<10, 722, 110, 772>>
    /\ tables[1].prov[1].bbox = <<10, 630, 110, 680>>
    /\ tables[1].data[2][1].bbox = <<1, 682, 6, 690>>

\* the file could not be opened as a valid document
OpenFailure ==
    \/ args.filesize > args.max_file_size
    \/ args.page_count = 0
    \/ args.page_count > args.max_num_pages
    \/ args.kind = "Path" /\ args.stat # "ok"
    \/ args.hash # "ok"
    \/ args.backend # "ok"

\* C10: valid is true only if the file is no larger than limits.max_file_size,
\* a hash was computed, a backend was opened and the page count is above 0 and
\* at most limits.max_num_pages; for an oversize file, zero pages, too many
\* pages, or a FileNotFoundError / OSError / RuntimeError while opening, valid
\* stays false and construction completes.  Construction raises only the
\* TypeError of a stream passed without a filename (line 84).
C10_ValidOnlyIfOpened ==
    /\ doc.valid =>
          /\ args.filesize <= args.max_file_size
          /\ doc.document_hash # None
          /\ doc.backend # None
          /\ args.page_count > 0
          /\ args.page_count <= args.max_num_pages
          /\ ipc = "done"
    /\ OpenFailure => ~doc.valid
    /\ ipc = "raised" => (args.kind = "BytesIO" /\ args.filename = None)
    /\ (ipc = "done" /\ ~OpenFailure /\ args.kind # "other") => doc.valid

\* the backend raised RuntimeError on a file within the limits: the document
\* is constructed, hashed, and invalid
C10_Witness ==
    /\ ipc = "done"
    /\ args.kind = "Path"
    /\ args.backend = "RuntimeError"
    /\ args.filesize <= args.max_file_size
    /\ args.page_count = 1
    /\ doc.document_hash # None
    /\ doc.backend = None
    /\ ~doc.valid

====
